---------------------------- MODULE Spec2Model ----------------------------
(***************************************************************************)
(* FemPoseDeviationSmoother (apollo planning): the QP formulation and the  *)
(* OSQP adapter of fem_pose_deviation_smoother.cc.                         *)
(*                                                                         *)
(* One smoother object.  Its members are the state; Optimize is modelled   *)
(* as the sequence of its steps (validation, problem sizes, the four       *)
(* builders, native allocation, osqp_setup, osqp_solve with the status     *)
(* classification, result extraction and cleanup).  std::vector values are *)
(* sequences (C++ index i is sequence index i+1); c_float values are       *)
(* integers, the code only adds and multiplies them by small integers.     *)
(***************************************************************************)
EXTENDS Integers, Sequences, FiniteSets

VARIABLES
    ref_points_, x_bounds_around_refs_, y_bounds_around_refs_,
    weight_fem_pose_deviation_, weight_path_length_, weight_ref_deviation_,
    num_of_points_, num_of_variables_, num_of_constraints_,
    x_, y_,
    pc, ret,
    P_data, P_indices, P_indptr,
    A_data, A_indices, A_indptr,
    lower_bounds, upper_bounds, q, primal_warm_start,
    data_n, data_m,
    work, status, solution, res,
    builders_run, allocs, frees, solve_calls, null_deref

inputs == <<ref_points_, x_bounds_around_refs_, y_bounds_around_refs_>>
weights == <<weight_fem_pose_deviation_, weight_path_length_, weight_ref_deviation_>>
sizes == <<num_of_points_, num_of_variables_, num_of_constraints_>>
outputs == <<x_, y_>>
locals == <<P_data, P_indices, P_indptr, A_data, A_indices, A_indptr,
            lower_bounds, upper_bounds, q, primal_warm_start>>
osqp == <<data_n, data_m, work, status, solution, res>>
trace == <<builders_run, allocs, frees, solve_calls, null_deref>>
vars == <<inputs, weights, sizes, outputs, pc, ret, locals, osqp, trace>>

-----------------------------------------------------------------------------
(* Bounds of the model *)

MaxPoints == 6
MaxHalfWidth == 1
MaxWeight == 1

(* std::numeric_limits<int>::max() *)
IntMax == 2147483647

(* OSQP status values: 1 solved, 2 solved inaccurate, 3 primal infeasible  *)
(* inaccurate, -2 maximum iterations reached, -3 primal infeasible.        *)
OSQP_SOLVED == 1
OSQP_SOLVED_INACCURATE == 2
StatusVals == {-3, -2, OSQP_SOLVED, OSQP_SOLVED_INACCURATE, 3}

Resources == {"data", "settings", "P", "A", "work"}
NoCounts == [r \in Resources |-> 0]

-----------------------------------------------------------------------------
(* Inputs the caller may install *)

RefPath(n) == [i \in 1..n |-> <<i - 1, ((i - 1) * (i - 1)) % 3>>]
Bounds(n, b) == [i \in 1..n |-> b]

(* The bound sequences have the length of the path, or one more entry *)
BoundLengths(n) == {n, n + 1}


-----------------------------------------------------------------------------
(* Optimize, lines 31-51: the sanity checks.  TRUE when the call returns   *)
(* false before formulating anything.                                      *)

(* the sanity checks without the minimum of three points *)
ValidationFails_NoMinimum(ref, xb, yb) ==
    \/ Len(ref) = 0
    \/ Len(ref) # Len(xb) \/ Len(xb) # Len(yb)
    \/ Len(ref) > IntMax

ValidationFails(ref, xb, yb) ==
    \/ Len(ref) = 0
    \/ Len(ref) # Len(xb) \/ Len(xb) # Len(yb)
    \/ Len(ref) < 3
    \/ Len(ref) > IntMax

-----------------------------------------------------------------------------
(* CalculateKernel, lines 129-207.  k is the builder's working state:      *)
(* columns (one sequence of <<row, value>> pairs per column 0..V-1),       *)
(* col_num, and oob, set when columns[] is indexed outside 0..V-1.         *)

NewColumns(V) ==
    [columns |-> [c \in 0..(V - 1) |-> <<>>], col_num |-> 0, oob |-> FALSE]

EmplaceBack(k, col, row, val) ==
    IF col \in DOMAIN k.columns
    THEN [k EXCEPT !.columns[col] = Append(@, <<row, val>>)]
    ELSE [k EXCEPT !.oob = TRUE]

IncColNum(k) == [k EXCEPT !.col_num = @ + 1]

(* lines 138-143 *)
RECURSIVE FirstPointCols(_, _)
FirstPointCols(k, col) ==
    IF col < 2
    THEN FirstPointCols(
             IncColNum(EmplaceBack(k, col, col,
                 weight_fem_pose_deviation_ + weight_path_length_
                     + weight_ref_deviation_)),
             col + 1)
    ELSE k

(* lines 145-152 *)
RECURSIVE SecondPointCols(_, _)
SecondPointCols(k, col) ==
    IF col < 4
    THEN LET k1 == EmplaceBack(k, col, col - 2,
                       -2 * weight_fem_pose_deviation_ - weight_path_length_)
             k2 == EmplaceBack(k1, col, col,
                       5 * weight_fem_pose_deviation_ + 2 * weight_path_length_
                           + weight_ref_deviation_)
         IN  SecondPointCols(IncColNum(k2), col + 1)
    ELSE k

(* lines 158-169: the inner loop, col_index += col *)
RECURSIVE InteriorAxisCols(_, _, _)
InteriorAxisCols(k, col_index, col) ==
    IF col < 2
    THEN LET ci == col_index + col
             k1 == EmplaceBack(k, ci, ci - 4, weight_fem_pose_deviation_)
             k2 == EmplaceBack(k1, ci, ci - 2,
                       -4 * weight_fem_pose_deviation_ - weight_path_length_)
             k3 == EmplaceBack(k2, ci, ci,
                       6 * weight_fem_pose_deviation_ + 2 * weight_path_length_
                           + weight_ref_deviation_)
         IN  InteriorAxisCols(IncColNum(k3), ci, col + 1)
    ELSE k

(* lines 154-170 *)
RECURSIVE InteriorPointCols(_, _, _)
InteriorPointCols(k, point_index, second_point_from_last_index) ==
    IF point_index < second_point_from_last_index
    THEN InteriorPointCols(InteriorAxisCols(k, point_index * 2, 0),
                           point_index + 1, second_point_from_last_index)
    ELSE k

(* lines 174-183 *)
RECURSIVE SecondFromLastCols(_, _, _)
SecondFromLastCols(k, col, last_point_col_from_last_col) ==
    IF col < last_point_col_from_last_col
    THEN LET k1 == EmplaceBack(k, col, col - 4, weight_fem_pose_deviation_)
             k2 == EmplaceBack(k1, col, col - 2,
                       -4 * weight_fem_pose_deviation_ - weight_path_length_)
             k3 == EmplaceBack(k2, col, col,
                       5 * weight_fem_pose_deviation_ + 2 * weight_path_length_
                           + weight_ref_deviation_)
         IN  SecondFromLastCols(IncColNum(k3), col + 1,
                                last_point_col_from_last_col)
    ELSE k

(* line 189-191 *)
LastPointDiagonal ==
    weight_fem_pose_deviation_ + weight_path_length_ + weight_ref_deviation_

(* lines 185-193 *)
RECURSIVE LastPointCols(_, _, _)
LastPointCols(k, col, V) ==
    IF col < V
    THEN LET k1 == EmplaceBack(k, col, col - 4, weight_fem_pose_deviation_)
             k2 == EmplaceBack(k1, col, col - 2,
                       -2 * weight_fem_pose_deviation_ - weight_path_length_)
             k3 == EmplaceBack(k2, col, col, LastPointDiagonal)
         IN  LastPointCols(IncColNum(k3), col + 1, V)
    ELSE k

(* lines 134-193: the columns as filled before CHECK_EQ at line 195 *)
FillColumns(N, V) ==
    LET k1 == FirstPointCols(NewColumns(V), 0)
        k2 == SecondPointCols(k1, 2)
        k3 == InteriorPointCols(k2, 2, N - 2)
        k4 == SecondFromLastCols(k3, V - 4, V - 2)
    IN  LastPointCols(k4, V - 2, V)

(* lines 200-204: one column's pairs appended to P_data and P_indices *)
RECURSIVE PushColumn(_, _, _)
PushColumn(csc, column, j) ==
    IF j <= Len(column)
    THEN PushColumn([csc EXCEPT !.data = Append(@, column[j][2] * 2),
                                !.indices = Append(@, column[j][1]),
                                !.ind_p = @ + 1],
                    column, j + 1)
    ELSE csc

(* lines 197-206 *)
RECURSIVE AssembleCsc(_, _, _)
AssembleCsc(csc, k, i) ==
    IF i < k.col_num
    THEN AssembleCsc(
             PushColumn([csc EXCEPT !.indptr = Append(@, csc.ind_p)],
                        k.columns[i], 1),
             k, i + 1)
    ELSE [csc EXCEPT !.indptr = Append(@, csc.ind_p)]

(* The outcome of CalculateKernel for num_of_points_ = N and               *)
(* num_of_variables_ = V: "check_failed" when CHECK_GT (line 132) or       *)
(* CHECK_EQ (line 195) aborts the process, "oob" when columns[] was        *)
(* written outside its size (undefined behaviour), "ok" with the matrix    *)
(* otherwise.                                                              *)
CalculateKernel(N, V) ==
    IF ~(V > 4)
    THEN [outcome |-> "check_failed", data |-> <<>>, indices |-> <<>>,
          indptr |-> <<>>]
    ELSE LET k == FillColumns(N, V)
         IN  IF k.oob
             THEN [outcome |-> "oob", data |-> <<>>, indices |-> <<>>,
                   indptr |-> <<>>]
             ELSE IF k.col_num # V
             THEN [outcome |-> "check_failed", data |-> <<>>,
                   indices |-> <<>>, indptr |-> <<>>]
             ELSE LET csc == AssembleCsc([data |-> <<>>, indices |-> <<>>,
                                          indptr |-> <<>>, ind_p |-> 0], k, 0)
                  IN  [outcome |-> "ok", data |-> csc.data,
                       indices |-> csc.indices, indptr |-> csc.indptr]

-----------------------------------------------------------------------------
(* CalculateOffset, lines 209-213 *)
CalculateOffset(V) == [i \in 1..V |-> -2 * weight_ref_deviation_]

(* CalculateAffineConstraint, lines 219-226: the identity matrix in CSC *)
AffineData(V) == [i \in 1..V |-> 1]
AffineIndices(V) == [i \in 1..V |-> i - 1]
AffineIndptr(V) == [i \in 1..(V + 1) |-> i - 1]

(* CalculateAffineConstraint, lines 228-234 *)
UpperBounds(N) ==
    [j \in 1..(2 * N) |->
        LET i == (j + 1) \div 2
        IN  IF j % 2 = 1
            THEN ref_points_[i][1] + x_bounds_around_refs_[i]
            ELSE ref_points_[i][2] + y_bounds_around_refs_[i]]

LowerBounds(N) ==
    [j \in 1..(2 * N) |->
        LET i == (j + 1) \div 2
        IN  IF j % 2 = 1
            THEN ref_points_[i][1] - x_bounds_around_refs_[i]
            ELSE ref_points_[i][2] - y_bounds_around_refs_[i]]

(* SetPrimalWarmStart, lines 237-244 *)
SetPrimalWarmStart ==
    [j \in 1..(2 * Len(ref_points_)) |->
        LET i == (j + 1) \div 2
        IN  IF j % 2 = 1 THEN ref_points_[i][1] ELSE ref_points_[i][2]]

-----------------------------------------------------------------------------
(* The external solver: what osqp_solve may leave in work->solution->x, a  *)
(* vector of length n = data->n.                                           *)
Solutions(n, warm) ==
    { [j \in 1..n |-> IF j <= Len(warm) THEN warm[j] ELSE 0],
      [j \in 1..n |-> 10 + j] }

(* OptimizeWithOsqp, lines 273-285: the classification of status_val *)
StatusOk(s) ==
    IF s < 0 THEN FALSE
    ELSE IF s # OSQP_SOLVED /\ s # OSQP_SOLVED_INACCURATE THEN FALSE
    ELSE TRUE

(* Optimize, line 98 *)
SolveFailed(r, w) == r = FALSE \/ w = "null" \/ w = "no_solution"

(* the extraction reading the solution without the stride of two *)
ExtractX_NoStride(sol, n) == [i \in 1..n |-> sol[(i - 1) + 1]]

(* Optimize, lines 111-117 *)
ExtractX(sol, n) == [i \in 1..n |-> sol[2 * (i - 1) + 1]]
ExtractY(sol, n) == [i \in 1..n |-> sol[2 * (i - 1) + 1 + 1]]

(* osqp_cleanup(work) releases the workspace when there is one *)
OsqpCleanup(f, w) == IF w = "null" THEN f ELSE [f EXCEPT !["work"] = @ + 1]

(* the failure path without c_free(settings) *)
FailureCleanup_LeakSettings(f, w) ==
    LET f1 == OsqpCleanup(f, w)
        f2 == [f1 EXCEPT !["A"] = @ + 1]
        f3 == [f2 EXCEPT !["P"] = @ + 1]
    IN  [f3 EXCEPT !["data"] = @ + 1]

(* Optimize, lines 101-105 *)
FailureCleanup(f, w) ==
    LET f1 == OsqpCleanup(f, w)
        f2 == [f1 EXCEPT !["A"] = @ + 1]
        f3 == [f2 EXCEPT !["P"] = @ + 1]
        f4 == [f3 EXCEPT !["data"] = @ + 1]
    IN  [f4 EXCEPT !["settings"] = @ + 1]

(* Optimize, lines 120-124 *)
SuccessCleanup(f, w) ==
    LET f1 == OsqpCleanup(f, w)
        f2 == [f1 EXCEPT !["A"] = @ + 1]
        f3 == [f2 EXCEPT !["P"] = @ + 1]
        f4 == [f3 EXCEPT !["data"] = @ + 1]
    IN  [f4 EXCEPT !["settings"] = @ + 1]

-----------------------------------------------------------------------------
(* The state after construction.  The header that declares the members is  *)
(* not part of the sources; Optimize reads num_of_variables_ before it     *)
(* writes it (line 54), so its value at construction ranges over a set.    *)
(* num_of_points_ and num_of_constraints_ are written before any read.     *)

InitNumOfVariables == 0..MaxPoints

Init ==
    /\ ref_points_ = <<>>
    /\ x_bounds_around_refs_ = <<>>
    /\ y_bounds_around_refs_ = <<>>
    /\ weight_fem_pose_deviation_ \in 0..MaxWeight
    /\ weight_path_length_ \in 0..MaxWeight
    /\ weight_ref_deviation_ \in 0..MaxWeight
    /\ num_of_points_ = 0
    /\ num_of_variables_ \in InitNumOfVariables
    /\ num_of_constraints_ = 0
    /\ x_ = <<>>
    /\ y_ = <<>>
    /\ pc = "idle"
    /\ ret = "none"
    /\ P_data = <<>> /\ P_indices = <<>> /\ P_indptr = <<>>
    /\ A_data = <<>> /\ A_indices = <<>> /\ A_indptr = <<>>
    /\ lower_bounds = <<>> /\ upper_bounds = <<>>
    /\ q = <<>> /\ primal_warm_start = <<>>
    /\ data_n = 0 /\ data_m = 0
    /\ work = "null" /\ status = 0 /\ solution = <<>> /\ res = FALSE
    /\ builders_run = {}
    /\ allocs = NoCounts /\ frees = NoCounts
    /\ solve_calls = 0
    /\ null_deref = FALSE

BetweenCalls == pc \in {"idle", "done"}

NoLocals ==
    /\ P_data' = <<>> /\ P_indices' = <<>> /\ P_indptr' = <<>>
    /\ A_data' = <<>> /\ A_indices' = <<>> /\ A_indptr' = <<>>
    /\ lower_bounds' = <<>> /\ upper_bounds' = <<>>
    /\ q' = <<>> /\ primal_warm_start' = <<>>
    /\ data_n' = 0 /\ data_m' = 0
    /\ work' = "null" /\ status' = 0 /\ solution' = <<>> /\ res' = FALSE

CallStarts ==
    /\ builders_run' = {}
    /\ allocs' = NoCounts /\ frees' = NoCounts
    /\ solve_calls' = 0
    /\ null_deref' = FALSE

(* The caller installs a reference path and the two bound sequences. *)
SetInputs ==
    /\ BetweenCalls
    /\ \E n \in 0..MaxPoints, b \in 0..MaxHalfWidth :
       \E nx \in BoundLengths(n), ny \in BoundLengths(n) :
          /\ ref_points_' = RefPath(n)
          /\ x_bounds_around_refs_' = Bounds(nx, b)
          /\ y_bounds_around_refs_' = Bounds(ny, b)
    /\ pc' = "idle"
    /\ ret' = "none"
    /\ CallStarts
    /\ UNCHANGED <<weights, sizes, outputs, locals, osqp>>

(* Optimize, lines 29-51: a sanity check fails, return false *)
OptimizeReject ==
    /\ BetweenCalls
    /\ ValidationFails(ref_points_, x_bounds_around_refs_,
                       y_bounds_around_refs_)
    /\ pc' = "done"
    /\ ret' = FALSE
    /\ CallStarts
    /\ UNCHANGED <<inputs, weights, sizes, outputs, locals, osqp>>

(* Optimize, lines 29-55: the sanity checks pass, the sizes are derived *)
OptimizeFormulate ==
    /\ BetweenCalls
    /\ ~ValidationFails(ref_points_, x_bounds_around_refs_,
                        y_bounds_around_refs_)
    /\ num_of_points_' = Len(ref_points_)
    /\ num_of_variables_' = num_of_variables_ * 2
    /\ num_of_constraints_' = num_of_variables_'
    /\ pc' = "formulated"
    /\ ret' = "none"
    /\ CallStarts
    /\ UNCHANGED <<inputs, weights, outputs, locals, osqp>>

(* Optimize, lines 57-61: CalculateKernel returns *)
KernelBuilt ==
    /\ pc = "formulated"
    /\ LET r == CalculateKernel(num_of_points_, num_of_variables_)
       IN  /\ r.outcome = "ok"
           /\ P_data' = r.data
           /\ P_indices' = r.indices
           /\ P_indptr' = r.indptr
    /\ builders_run' = builders_run \cup {"CalculateKernel"}
    /\ pc' = "kernel"
    /\ UNCHANGED <<inputs, weights, sizes, outputs, ret, A_data, A_indices,
                   A_indptr, lower_bounds, upper_bounds, q, primal_warm_start,
                   osqp, allocs, frees, solve_calls, null_deref>>

(* CalculateKernel, lines 132 and 195: a CHECK fails, the process aborts *)
KernelCheckFails ==
    /\ pc = "formulated"
    /\ CalculateKernel(num_of_points_, num_of_variables_).outcome
           = "check_failed"
    /\ builders_run' = builders_run \cup {"CalculateKernel"}
    /\ pc' = "aborted"
    /\ UNCHANGED <<inputs, weights, sizes, outputs, ret, locals, osqp, allocs,
                   frees, solve_calls, null_deref>>

(* CalculateKernel, lines 160-167: columns[col_index] is written past the  *)
(* end of columns.  Undefined behaviour: the process crashes there, or it  *)
(* runs on to CHECK_EQ at line 195, which fails.                           *)
KernelOutOfBounds ==
    /\ pc = "formulated"
    /\ CalculateKernel(num_of_points_, num_of_variables_).outcome = "oob"
    /\ builders_run' = builders_run \cup {"CalculateKernel"}
    /\ pc' \in {"crashed", "aborted"}
    /\ UNCHANGED <<inputs, weights, sizes, outputs, ret, locals, osqp, allocs,
                   frees, solve_calls, null_deref>>

(* Optimize, lines 63-78: the other three builders *)
BuildRest ==
    /\ pc = "kernel"
    /\ A_data' = AffineData(num_of_variables_)
    /\ A_indices' = AffineIndices(num_of_variables_)
    /\ A_indptr' = AffineIndptr(num_of_variables_)
    /\ upper_bounds' = UpperBounds(num_of_points_)
    /\ lower_bounds' = LowerBounds(num_of_points_)
    /\ q' = CalculateOffset(num_of_variables_)
    /\ primal_warm_start' = SetPrimalWarmStart
    /\ builders_run' = builders_run \cup {"CalculateAffineConstraint",
                                          "CalculateOffset",
                                          "SetPrimalWarmStart"}
    /\ pc' = "built"
    /\ UNCHANGED <<inputs, weights, sizes, outputs, ret, P_data, P_indices,
                   P_indptr, osqp, allocs, frees, solve_calls, null_deref>>

(* Optimize, lines 80-92: c_malloc of OSQPData and OSQPSettings *)
Allocate ==
    /\ pc = "built"
    /\ allocs' = [allocs EXCEPT !["data"] = @ + 1, !["settings"] = @ + 1]
    /\ work' = "null"
    /\ pc' = "allocated"
    /\ UNCHANGED <<inputs, weights, sizes, outputs, ret, locals, data_n,
                   data_m, status, solution, res, builders_run, frees,
                   solve_calls, null_deref>>

(* OptimizeWithOsqp, lines 254-266: the two csc_matrix calls and           *)
(* osqp_setup, which yields a workspace, a workspace without a solution,   *)
(* or no workspace.                                                        *)
OsqpSetup ==
    /\ pc = "allocated"
    /\ Len(lower_bounds) = Len(upper_bounds)
    /\ data_n' = num_of_variables_
    /\ data_m' = Len(lower_bounds)
    /\ \E w \in {"ok", "no_solution", "null"} :
          /\ work' = w
          /\ allocs' = [allocs EXCEPT !["P"] = @ + 1, !["A"] = @ + 1,
                                      !["work"] = IF w = "null" THEN @
                                                  ELSE @ + 1]
    /\ pc' = "setup"
    /\ UNCHANGED <<inputs, weights, sizes, outputs, ret, locals, status,
                   solution, res, builders_run, frees, solve_calls,
                   null_deref>>

(* OptimizeWithOsqp, lines 268-285: osqp_solve and the classification of   *)
(* work->info->status_val.                                                 *)
OsqpSolve ==
    /\ pc = "setup"
    /\ work # "null"
    /\ solve_calls' = solve_calls + 1
    /\ \E s \in StatusVals :
          /\ status' = s
          /\ res' = StatusOk(s)
    /\ IF work = "ok"
       THEN solution' \in Solutions(data_n, primal_warm_start)
       ELSE solution' = <<>>
    /\ pc' = "classified"
    /\ UNCHANGED <<inputs, weights, sizes, outputs, ret, locals, data_n,
                   data_m, work, builders_run, allocs, frees, null_deref>>

(* OptimizeWithOsqp, line 273 with a null workspace: the null pointer is   *)
(* dereferenced.  Undefined behaviour: the process crashes, or some value  *)
(* is read as the status and the function goes on.                         *)
OsqpSolveNullWorkspace ==
    /\ pc = "setup"
    /\ work = "null"
    /\ solve_calls' = solve_calls + 1
    /\ null_deref' = TRUE
    /\ \/ /\ pc' = "crashed"
          /\ UNCHANGED <<status, res>>
       \/ /\ \E s \in StatusVals :
                /\ status' = s
                /\ res' = StatusOk(s)
          /\ pc' = "classified"
    /\ UNCHANGED <<inputs, weights, sizes, outputs, ret, locals, data_n,
                   data_m, work, solution, builders_run, allocs, frees>>

(* Optimize, lines 98-108: no solution, cleanup and return false *)
ReturnFailure ==
    /\ pc = "classified"
    /\ SolveFailed(res, work)
    /\ frees' = FailureCleanup(frees, work)
    /\ ret' = FALSE
    /\ pc' = "done"
    /\ NoLocals
    /\ UNCHANGED <<inputs, weights, sizes, outputs, builders_run, allocs,
                   solve_calls, null_deref>>

(* Optimize, lines 110-126: extract the primal result, cleanup, return true *)
ReturnSuccess ==
    /\ pc = "classified"
    /\ ~SolveFailed(res, work)
    /\ x_' = ExtractX(solution, num_of_points_)
    /\ y_' = ExtractY(solution, num_of_points_)
    /\ frees' = SuccessCleanup(frees, work)
    /\ ret' = TRUE
    /\ pc' = "done"
    /\ NoLocals
    /\ UNCHANGED <<inputs, weights, sizes, builders_run, allocs, solve_calls,
                   null_deref>>

Next ==
    \/ SetInputs
    \/ OptimizeReject
    \/ OptimizeFormulate
    \/ KernelBuilt
    \/ KernelCheckFails
    \/ KernelOutOfBounds
    \/ BuildRest
    \/ Allocate
    \/ OsqpSetup
    \/ OsqpSolve
    \/ OsqpSolveNullWorkspace
    \/ ReturnFailure
    \/ ReturnSuccess

Spec == Init /\ [][Next]_vars

-----------------------------------------------------------------------------
(* Vocabulary of the properties *)

N == Len(ref_points_)

OptimizeCalled == OptimizeReject \/ OptimizeFormulate

InCall == pc \in {"formulated", "kernel", "built", "allocated", "setup",
                  "classified"}

KernelEmitted == pc \in {"kernel", "built", "allocated", "setup",
                         "classified"}

ProblemBuilt == pc \in {"built", "allocated", "setup", "classified"}

InOsqp == pc \in {"setup", "classified"}

ProcessDied == pc \in {"aborted", "crashed"}

InvalidInput ==
    \/ Len(ref_points_) = 0
    \/ Len(ref_points_) # Len(x_bounds_around_refs_)
    \/ Len(ref_points_) # Len(y_bounds_around_refs_)
    \/ Len(x_bounds_around_refs_) # Len(y_bounds_around_refs_)
    \/ Len(ref_points_) < 3
    \/ Len(ref_points_) > IntMax

-----------------------------------------------------------------------------
(* C1: for every input that passes validation, Optimize sets               *)
(* num_of_variables_ and num_of_constraints_ to 2N, and hands              *)
(* OptimizeWithOsqp kernel_dim = 2N and num_affine_constraint = 2N,        *)
(* whatever num_of_variables_ held before the call.                        *)
C1_SizesAreTwiceN ==
    /\ InCall => /\ num_of_points_ = N
                 /\ num_of_variables_ = 2 * N
                 /\ num_of_constraints_ = 2 * N
    /\ InOsqp => /\ data_n = 2 * N
                 /\ data_m = 2 * N

-----------------------------------------------------------------------------
(* C2: when the reference path is empty, the three sequences differ in     *)
(* length, there are fewer than 3 points or more than INT_MAX, Optimize    *)
(* returns false before any builder runs, before any native allocation and *)
(* without a call of osqp_solve, and leaves num_of_points_,                *)
(* num_of_variables_, num_of_constraints_, x_ and y_ unchanged.            *)
C2_InvalidInputRejected ==
    [][(InvalidInput /\ OptimizeCalled) =>
           /\ pc' = "done"
           /\ ret' = FALSE
           /\ builders_run' = {}
           /\ allocs' = NoCounts
           /\ solve_calls' = 0
           /\ UNCHANGED <<sizes, outputs>>]_vars

(* A two-point path was rejected after an earlier call had succeeded: the  *)
(* sizes and the outputs of that earlier call are still there.             *)
C2_Witness ==
    /\ pc = "done" /\ ret = FALSE
    /\ Len(ref_points_) = 2
    /\ builders_run = {} /\ allocs = NoCounts
    /\ num_of_points_ >= 3 /\ Len(x_) = num_of_points_

-----------------------------------------------------------------------------
(* C3: on every return of Optimize after it allocated solver resources,    *)
(* OSQPData, OSQPSettings, data->P and data->A have each been released     *)
(* exactly once, the workspace has been released exactly once when         *)
(* osqp_setup produced one, nothing is released twice or without having    *)
(* been allocated, and nothing remains allocated.                          *)
C3_ResourcesReleased ==
    /\ \A r \in Resources : frees[r] <= allocs[r] /\ allocs[r] <= 1
    /\ (pc = "done" /\ allocs # NoCounts) =>
           /\ \A r \in Resources \ {"work"} : allocs[r] = 1 /\ frees[r] = 1
           /\ frees["work"] = allocs["work"]

(* A call that reached the solver returned false and released a workspace *)
C3_Witness ==
    /\ pc = "done" /\ ret = FALSE
    /\ solve_calls = 1
    /\ allocs["work"] = 1 /\ frees = allocs

-----------------------------------------------------------------------------
(* C4: every solver setup or runtime failure is reported as false: once    *)
(* the solver resources exist, Optimize goes on to return true exactly     *)
(* when osqp_setup produced a workspace with a solution and the status     *)
(* after the one osqp_solve call is 1 or 2, and it never dereferences a    *)
(* null workspace or ends the process.                                     *)
C4_SolverFailureIsFalse ==
    /\ null_deref = FALSE
    /\ allocs # NoCounts => ~ProcessDied
    /\ solve_calls <= 1
    /\ pc = "classified" =>
           (~SolveFailed(res, work) <=>
               /\ work = "ok"
               /\ status \in {OSQP_SOLVED, OSQP_SOLVED_INACCURATE})

-----------------------------------------------------------------------------
(* C5: a path of exactly 3 points with all half-widths 0 passes            *)
(* validation, CalculateKernel completes with every CHECK satisfied and    *)
(* one kernel column per decision variable, lower and upper bound both     *)
(* equal the reference coordinate, the solver is invoked, and a successful *)
(* solve with a feasible solution returns the reference path.              *)
ThreePointsZeroBounds ==
    /\ Len(ref_points_) = 3
    /\ x_bounds_around_refs_ = Bounds(3, 0)
    /\ y_bounds_around_refs_ = Bounds(3, 0)

Feasible(sol) ==
    /\ Len(sol) >= Len(lower_bounds)
    /\ \A j \in 1..Len(lower_bounds) :
           lower_bounds[j] <= sol[j] /\ sol[j] <= upper_bounds[j]

C5_ThreePointsZeroBounds ==
    ThreePointsZeroBounds =>
        /\ ~ProcessDied
        /\ pc = "done" => builders_run # {}
        /\ KernelEmitted => Len(P_indptr) = 2 * 3 + 1
        /\ ProblemBuilt => /\ lower_bounds = SetPrimalWarmStart
                           /\ upper_bounds = SetPrimalWarmStart
        /\ (pc = "classified" /\ ~SolveFailed(res, work)
                /\ Feasible(solution)) =>
               /\ ExtractX(solution, num_of_points_)
                      = [i \in 1..3 |-> ref_points_[i][1]]
               /\ ExtractY(solution, num_of_points_)
                      = [i \in 1..3 |-> ref_points_[i][2]]

-----------------------------------------------------------------------------
(* Reading the emitted CSC kernel.  Columns and rows are numbered from 0   *)
(* as in the code; column c holds positions P_indptr[c]+1 .. P_indptr[c+1] *)
(* of P_data and P_indices.                                                *)

KernelCols == Len(P_indptr) - 1

Positions(c) == (P_indptr[c + 1] + 1)..P_indptr[c + 2]

(* the values stored at row r of column c *)
StoredAt(r, c) == {P_data[j] : j \in {i \in Positions(c) : P_indices[i] = r}}

ws == weight_fem_pose_deviation_
wl == weight_path_length_
wd == weight_ref_deviation_

(* the columns of point p: 2p (x axis) and 2p + 1 (y axis) *)
ColsOfPoint(p) == {2 * p, 2 * p + 1}

-----------------------------------------------------------------------------
(* C6: for every N >= 3 CalculateKernel stores, for every point and on     *)
(* both axes, the values of the specification's table: the first two       *)
(* points have diagonal 2(ws + wl + wd), the second also 2(-2ws - wl) one  *)
(* point back; interior points 2..N-3 have 2(6ws + 2wl + wd),              *)
(* 2(-4ws - wl) and 2ws; the second-from-last point has                    *)
(* 2(5ws + 2wl + wd), 2(-4ws - wl) and 2ws; the last point has             *)
(* 2(ws + wl + wd) with back-offsets 2(-4ws - wl) and 2ws.                 *)
C6_SpecTable ==
    /\ pc # "aborted"
    /\ KernelEmitted =>
        \A p \in 0..(N - 1) : \A c \in ColsOfPoint(p) :
            /\ c < KernelCols
            /\ IF p = N - 1
               THEN /\ StoredAt(c, c) = {2 * (ws + wl + wd)}
                    /\ StoredAt(c - 2, c) = {2 * (-4 * ws - wl)}
                    /\ StoredAt(c - 4, c) = {2 * ws}
               ELSE IF p = N - 2 /\ p >= 2
               THEN /\ StoredAt(c, c) = {2 * (5 * ws + 2 * wl + wd)}
                    /\ StoredAt(c - 2, c) = {2 * (-4 * ws - wl)}
                    /\ StoredAt(c - 4, c) = {2 * ws}
               ELSE IF p < 2
               THEN /\ StoredAt(c, c) = {2 * (ws + wl + wd)}
                    /\ p = 1 => StoredAt(c - 2, c) = {2 * (-2 * ws - wl)}
               ELSE /\ StoredAt(c, c) = {2 * (6 * ws + 2 * wl + wd)}
                    /\ StoredAt(c - 2, c) = {2 * (-4 * ws - wl)}
                    /\ StoredAt(c - 4, c) = {2 * ws}

-----------------------------------------------------------------------------
(* C7: for any non-negative weights and any N >= 3 CalculateKernel emits   *)
(* the upper triangle of 2(ws D2^T D2 + wl D1^T D1 + wd I) on each axis,   *)
(* D1 and D2 being the first- and second-difference operators over the N   *)
(* points, with zero coupling between x and y variables (hence a positive  *)
(* semi-definite matrix).                                                  *)

(* row k of the first-difference operator: x[k+1] - x[k] *)
D1(k, i) == IF i = k THEN -1 ELSE IF i = k + 1 THEN 1 ELSE 0

(* row k of the second-difference operator: x[k] - 2x[k+1] + x[k+2] *)
D2(k, i) ==
    IF i = k \/ i = k + 2 THEN 1 ELSE IF i = k + 1 THEN -2 ELSE 0

RECURSIVE GramD1(_, _, _)
GramD1(i, j, k) ==
    IF k < 0 THEN 0 ELSE D1(k, i) * D1(k, j) + GramD1(i, j, k - 1)

RECURSIVE GramD2(_, _, _)
GramD2(i, j, k) ==
    IF k < 0 THEN 0 ELSE D2(k, i) * D2(k, j) + GramD2(i, j, k - 1)

(* entry (r, c) of the objective's Hessian over n points *)
Hessian(r, c, n) ==
    IF r % 2 # c % 2
    THEN 0
    ELSE LET i == r \div 2
             j == c \div 2
         IN  2 * (ws * GramD2(i, j, n - 3) + wl * GramD1(i, j, n - 2)
                  + wd * (IF i = j THEN 1 ELSE 0))

RECURSIVE SumStored(_, _, _)
SumStored(r, c, j) ==
    IF j > P_indptr[c + 2]
    THEN 0
    ELSE (IF P_indices[j] = r THEN P_data[j] ELSE 0) + SumStored(r, c, j + 1)

(* entry (r, c), r <= c, of the matrix the emitted triangle stands for *)
KernelValue(r, c) == SumStored(r, c, P_indptr[c + 1] + 1)

C7_KernelIsGramMatrix ==
    /\ pc # "aborted"
    /\ KernelEmitted =>
           /\ KernelCols = 2 * N
           /\ \A c \in 0..(2 * N - 1) : \A r \in 0..c :
                  KernelValue(r, c) = Hessian(r, c, N)
           /\ \A j \in 1..Len(P_indices) : P_indices[j] >= 0

-----------------------------------------------------------------------------
(* C8: when Optimize returns true, x_ and y_ have length N and x_[i],      *)
(* y_[i] are entries 2i and 2i+1 of the solver's primal solution; when it  *)
(* returns false, x_ and y_ are not written by the call.                   *)
C8_SolutionOnlyOnSuccess ==
    [][/\ (pc = "classified" /\ pc' = "done" /\ ret' = TRUE) =>
              /\ Len(x_') = N
              /\ Len(y_') = N
              /\ \A i \in 0..(N - 1) :
                     /\ x_'[i + 1] = solution[2 * i + 1]
                     /\ y_'[i + 1] = solution[2 * i + 1 + 1]
       /\ (InCall /\ pc' = "done" /\ ret' = FALSE) => UNCHANGED outputs
       /\ (OptimizeReject /\ pc' = "done") => UNCHANGED outputs
      ]_vars

(* A call returned true on five points with the solution 11, 12, 13, ... *)
C8_Witness ==
    /\ pc = "done" /\ ret = TRUE
    /\ N = 5
    /\ x_ = <<11, 13, 15, 17, 19>>
    /\ y_ = <<12, 14, 16, 18, 20>>

-----------------------------------------------------------------------------
(* C9: no state carries over between calls: the problem a call formulates  *)
(* is the one a fresh smoother would formulate from the call's inputs, so  *)
(* a call on a path with as many points as the call before it formulates   *)
(* the same num_of_variables_ and num_of_constraints_ again.               *)
C9_NoCarriedState ==
    [][(OptimizeFormulate /\ num_of_points_ = N) =>
           /\ num_of_variables_' = num_of_variables_
           /\ num_of_constraints_' = num_of_constraints_]_vars

-----------------------------------------------------------------------------
(* C10: for every N >= 3 CalculateKernel emits a well-formed               *)
(* upper-triangular CSC matrix over the 2N variables: P_indptr has 2N + 1  *)
(* entries, starts at 0, is strictly increasing and ends with the number   *)
(* of stored values; in each column the row indices lie in 0..c, ascend    *)
(* strictly, and end with the diagonal.                                    *)
C10_WellFormedCsc ==
    /\ pc # "aborted"
    /\ KernelEmitted =>
           /\ Len(P_indptr) = 2 * N + 1
           /\ P_indptr[1] = 0
           /\ \A c \in 1..(Len(P_indptr) - 1) : P_indptr[c] < P_indptr[c + 1]
           /\ P_indptr[Len(P_indptr)] = Len(P_data)
           /\ Len(P_data) = Len(P_indices)
           /\ \A c \in 0..(KernelCols - 1) :
                  /\ \A j \in Positions(c) :
                         /\ 0 <= P_indices[j] /\ P_indices[j] <= c
                         /\ (j + 1) \in Positions(c) =>
                                P_indices[j] < P_indices[j + 1]
                  /\ P_indices[P_indptr[c + 2]] = c

=============================================================================
